---- MODULE Spec2Model ----
(***************************************************************************)
(* A model of policies.py: the data preparation script (the __main__       *)
(* block), the training loop `train`, and the fingerprint transforms       *)
(* fps_to_arr / fingerprint_reactions.                                     *)
(*                                                                         *)
(* The specifications share the variables below:                           *)
(*   Spec       the __main__ script up to the call of train (line 346)     *)
(*   FairSpec   Spec with fair random choice in the two sampling loops     *)
(*   TrainSpec  the function train (lines 63-98)                           *)
(*   FpSpec     fingerprint_mols / fingerprint_reactions / fps_to_arr      *)
(*                                                                         *)
(* What is left abstract: the cheminformatics toolkit and the numeric      *)
(* framework.  A molecule or reaction is identified with the bit vector    *)
(* the toolkit computes for it; the loss sess.run returns is identified    *)
(* with the number of the run; 1 - euclidean(f, k) is one uninterpreted    *)
(* value.  Python 3 is assumed (true division, dicts in insertion order).  *)
(* A line of a .dat file is the tuple of its tab separated fields.         *)
(* A loop local that is overwritten before it is read again (a, b, p_a,    *)
(* p_b, prod, rule in the sampling loops) is kept only while it is live;   *)
(* r, which line 337 reads after its loop has ended, is kept throughout.   *)
(***************************************************************************)
EXTENDS Integers, Sequences, FiniteSets, TLC

(* ------------------------------ bounds --------------------------------- *)
\* lines of data/templates.dat
MaxTemplates == 3
\* lines of data/rollout.dat and of data/expansion.dat
MaxRuleLines == 2
\* stands for the 10000 of `while len(notsims) < 10000`
NotSimsTarget == 1
\* len(X) passed to train
MaxExamples == 3
\* batch_size passed to train
MaxBatch == 3
\* epochs passed to train
MaxEpochs == 2
\* bits of a toolkit fingerprint
MaxBits == 4
\* fingerprints in one call
MaxFps == 2

\* product SMILES and rule SMARTS that occur in the data files
Prods == {"C", "N"}
Rules == {"a", "b"}
\* the value of a name that is not bound yet
Unbound == "<unbound>"

VARIABLES
    pc,             \* position in the script / in train / in the transform
    \* --- __main__ ---
    templates_dat,  \* data/templates.dat: lines <<rule, prod>>
    rollout_dat,    \* data/rollout.dat: rule lines
    expansion_dat,  \* data/expansion.dat: rule lines
    i,              \* the batch index in train
    items,          \* the dict items a for loop has not visited yet
    prod_to_rules,  \* dict prod -> set of rules, in insertion order
    rollout_rules,  \* dict rule -> index
    expansion_rules,\* dict rule -> index
    rule_groups,    \* dict rule -> list of prods
    all_sims,
    notsims,
    a, b,           \* the rules drawn in the notsims loop, until they are compared
    n_rules,        \* RolloutPolicyNet.n_rules
    X, y,           \* the training examples and their labels
    exists,         \* set of '{prod}_{rule}' keys of the positive examples
    target_size,
    prod, rule,     \* the pair drawn in the negative loop, until it is tested
    r,              \* the loop variable of the `for r in rules` loops
    \* --- train ---
    X_in, y_in,     \* the X and y train was called with
    batch_size, epochs, n_steps, e,
    losses,         \* the list train returns
    feeds,          \* the feed_dict of every sess.run of the current epoch, in order
    writer,         \* the global steps given to writer.add_summary, in order
    saves,          \* for every saver.save: the number of sess.run before it
    \* --- fingerprints ---
    raw,            \* the toolkit's fingerprint of every input molecule/reaction
    fp_dim,
    fps,            \* the list fingerprint_mols / fingerprint_reactions returns
    arr             \* the array fps_to_arr returns

mainVars == <<templates_dat, rollout_dat, expansion_dat, items,
              prod_to_rules, rollout_rules, expansion_rules, rule_groups,
              all_sims, notsims, a, b, n_rules, exists,
              target_size, prod, rule, r>>
trainVars == <<X_in, y_in, batch_size, epochs, n_steps, e, losses, feeds,
               writer, saves>>
fpVars == <<raw, fp_dim, fps, arr>>
vars == <<pc, i, X, y, mainVars, trainVars, fpVars>>

(* ----------------------------- helpers --------------------------------- *)
Range(s) == {s[j] : j \in 1..Len(s)}

BoundedSeq(S, n) == UNION {[1..k -> S] : k \in 0..n}

\* every order in which a Python set can be iterated
Orders(S) == {s \in [1..Cardinality(S) -> S] : Range(s) = S}

\* every permutation of 1..n
Perms(n) == {p \in [1..n -> 1..n] : Range(p) = 1..n}

\* A Python dict: the sequence of its <<key, value>> items in insertion order.
Keys(d) == [j \in 1..Len(d) |-> d[j][1]]

Has(d, k) == \E j \in 1..Len(d) : d[j][1] = k

Get(d, k) == d[CHOOSE j \in 1..Len(d) : d[j][1] = k][2]

\* d[k] = v
Put(d, k, v) ==
    IF Has(d, k)
    THEN [j \in 1..Len(d) |-> IF d[j][1] = k THEN <<k, v>> ELSE d[j]]
    ELSE Append(d, <<k, v>>)

\* d[k] of a defaultdict whose factory gives `dflt`
GetDefault(d, k, dflt) == IF Has(d, k) THEN Get(d, k) ELSE dflt

\* '{}_{}'.format(p, q)
Format(p, q) == p \o "_" \o q

\* 1 - distance.euclidean(fp(p), fp(q)): a float the script only collects
Sim(p, q) == "sim"

\* [x for x in s if x in d]
RECURSIVE FilterIn(_, _)
FilterIn(s, d) ==
    IF s = <<>> THEN <<>>
    ELSE IF Has(d, Head(s)) THEN <<Head(s)>> \o FilterIn(Tail(s), d)
    ELSE FilterIn(Tail(s), d)

(* --------------------------- __main__ ---------------------------------- *)
\* a list of (prod, rule) entries instead of a dict of sets: nothing is merged
AddRuleNoDedup(d, p, ru) == Append(d, <<p, {ru}>>)

\* line 218: prod_to_rules[prod].add(rule), prod_to_rules a defaultdict(set)
AddRule(d, p, ru) == Put(d, p, GetDefault(d, p, {}) \cup {ru})

MainInit ==
    /\ templates_dat \in BoundedSeq(Rules \X Prods, MaxTemplates)
    /\ rollout_dat \in BoundedSeq(Rules, MaxRuleLines)
    /\ expansion_dat \in BoundedSeq(Rules, MaxRuleLines)
    /\ pc = "templates"
    /\ i = 0
    /\ items = <<>>
    /\ prod_to_rules = <<>>
    /\ rollout_rules = <<>>
    /\ expansion_rules = <<>>
    /\ rule_groups = <<>>
    /\ all_sims = <<>>
    /\ notsims = <<>>
    /\ a = Unbound /\ b = Unbound
    /\ n_rules = 0
    /\ X = <<>> /\ y = <<>>
    /\ exists = {}
    /\ target_size = 0
    /\ prod = Unbound /\ rule = Unbound /\ r = Unbound

\* lines 215-218: the lines of templates.dat, from first to last
RECURSIVE LoadTemplates(_, _)
LoadTemplates(d, lines) ==
    IF lines = <<>> THEN d
    ELSE LoadTemplates(AddRule(d, Head(lines)[2], Head(lines)[1]), Tail(lines))

\* lines 221-224 and 227-230: rules[rule] = i for the lines of a rule file,
\* i the counter of enumerate
RECURSIVE LoadRules(_, _, _)
LoadRules(d, lines, n) ==
    IF lines = <<>> THEN d
    ELSE LoadRules(Put(d, Head(lines), n), Tail(lines), n + 1)

\* lines 214-218
LoadTemplateFile ==
    /\ pc = "templates"
    /\ prod_to_rules' = LoadTemplates(<<>>, templates_dat)
    /\ pc' = "rollout"
    /\ UNCHANGED <<i, X, y, templates_dat, rollout_dat, expansion_dat, items,
                   rollout_rules, expansion_rules, rule_groups, all_sims, notsims,
                   a, b, n_rules, exists, target_size, prod, rule, r>>
    /\ UNCHANGED <<trainVars, fpVars>>

\* lines 220-224
LoadRolloutFile ==
    /\ pc = "rollout"
    /\ rollout_rules' = LoadRules(<<>>, rollout_dat, 0)
    /\ pc' = "expansion"
    /\ UNCHANGED <<i, X, y, templates_dat, rollout_dat, expansion_dat, items,
                   prod_to_rules, expansion_rules, rule_groups, all_sims, notsims,
                   a, b, n_rules, exists, target_size, prod, rule, r>>
    /\ UNCHANGED <<trainVars, fpVars>>

\* lines 226-233: expansion.dat is loaded and the loop over prod_to_rules starts
LoadExpansionFile ==
    /\ pc = "expansion"
    /\ expansion_rules' = LoadRules(<<>>, expansion_dat, 0)
    /\ items' = prod_to_rules
    /\ pc' = "rule_groups"
    /\ UNCHANGED <<i, X, y, templates_dat, rollout_dat, expansion_dat,
                   prod_to_rules, rollout_rules, rule_groups, all_sims, notsims,
                   a, b, n_rules, exists, target_size, prod, rule, r>>
    /\ UNCHANGED <<trainVars, fpVars>>

\* for r in rules: rule_groups[r].append(p)
RECURSIVE AppendGroups(_, _, _)
AppendGroups(groups, rules, p) ==
    IF rules = <<>> THEN groups
    ELSE AppendGroups(
            Put(groups, Head(rules), Append(GetDefault(groups, Head(rules), <<>>), p)),
            Tail(rules), p)

\* lines 233-237: one product; `order` is the iteration order of its rule set
BuildRuleGroups(order) ==
    /\ pc = "rule_groups"
    /\ items # <<>>
    /\ order \in Orders(Head(items)[2])
    /\ LET rules == FilterIn(order, expansion_rules)
       IN /\ rule_groups' = AppendGroups(rule_groups, rules, Head(items)[1])
          /\ r' = IF rules = <<>> THEN r ELSE rules[Len(rules)]
    /\ items' = Tail(items)
    /\ UNCHANGED <<pc, i, X, y, templates_dat, rollout_dat, expansion_dat,
                   prod_to_rules, rollout_rules, expansion_rules, all_sims, notsims,
                   a, b, n_rules, exists, target_size, prod, rule>>
    /\ UNCHANGED <<trainVars, fpVars>>

\* lines 239-241: the loop over rule_groups starts
StartAllSims ==
    /\ pc = "rule_groups"
    /\ items = <<>>
    /\ pc' = "all_sims"
    /\ items' = rule_groups
    /\ UNCHANGED <<i, X, y, templates_dat, rollout_dat, expansion_dat,
                   prod_to_rules, rollout_rules, expansion_rules, rule_groups,
                   all_sims, notsims, a, b, n_rules, exists,
                   target_size, prod, rule, r>>
    /\ UNCHANGED <<trainVars, fpVars>>

\* lines 243-248: the similarities of all ordered pairs i # j of one group;
\* they are returned as a set of <<i, j, sim>> entries
PairSims(prods) ==
    {<<j, k, Sim(prods[j], prods[k])>> :
        <<j, k>> \in {q \in (1..Len(prods)) \X (1..Len(prods)) : q[1] # q[2]}}

\* lines 241-251: one rule group; np.mean(sims) is represented by sims
AllSims ==
    /\ pc = "all_sims"
    /\ items # <<>>
    /\ LET sims == PairSims(Head(items)[2])
       IN all_sims' = IF sims = {} THEN all_sims ELSE Append(all_sims, sims)
    /\ items' = Tail(items)
    /\ UNCHANGED <<pc, i, X, y, templates_dat, rollout_dat, expansion_dat,
                   prod_to_rules, rollout_rules, expansion_rules, rule_groups,
                   notsims, a, b, n_rules, exists, target_size, prod, rule, r>>
    /\ UNCHANGED <<trainVars, fpVars>>

\* lines 253-255: the notsims loop starts
StartNotSims ==
    /\ pc = "all_sims"
    /\ items = <<>>
    /\ pc' = "notsims"
    /\ notsims' = <<>>
    /\ UNCHANGED <<i, X, y, templates_dat, rollout_dat, expansion_dat, items,
                   prod_to_rules, rollout_rules, expansion_rules, rule_groups,
                   all_sims, a, b, n_rules, exists, target_size,
                   prod, rule, r>>
    /\ UNCHANGED <<trainVars, fpVars>>

\* lines 255-257: a = random.choice(rules); b = random.choice(rules)
NotSimsChoose(ca, cb) ==
    /\ pc = "notsims"
    /\ Len(notsims) < NotSimsTarget
    /\ Has(rule_groups, ca)
    /\ Has(rule_groups, cb)
    /\ a' = ca
    /\ b' = cb
    /\ pc' = "notsims_chosen"
    /\ UNCHANGED <<i, X, y, templates_dat, rollout_dat, expansion_dat, items,
                   prod_to_rules, rollout_rules, expansion_rules, rule_groups,
                   all_sims, notsims, n_rules, exists, target_size,
                   prod, rule, r>>
    /\ UNCHANGED <<trainVars, fpVars>>

\* line 256 on an empty list of rules: random.choice raises IndexError
NotSimsIndexError ==
    /\ pc = "notsims"
    /\ Len(notsims) < NotSimsTarget
    /\ rule_groups = <<>>
    /\ pc' = "IndexError"
    /\ UNCHANGED <<i, X, y, mainVars, trainVars, fpVars>>

\* line 258: if a == b: continue
NotSimsContinue ==
    /\ pc = "notsims_chosen"
    /\ a = b
    /\ a' = Unbound
    /\ b' = Unbound
    /\ pc' = "notsims"
    /\ UNCHANGED <<i, X, y, templates_dat, rollout_dat, expansion_dat, items,
                   prod_to_rules, rollout_rules, expansion_rules, rule_groups,
                   all_sims, notsims, n_rules, exists, target_size, prod, rule, r>>
    /\ UNCHANGED <<trainVars, fpVars>>

\* lines 259-263: the products p_a = ca and p_b = cb are drawn and their
\* similarity is recorded
NotSimsAppend(ca, cb) ==
    /\ pc = "notsims_chosen"
    /\ a # b
    /\ ca \in Range(Get(rule_groups, a))
    /\ cb \in Range(Get(rule_groups, b))
    /\ notsims' = Append(notsims, Sim(ca, cb))
    /\ a' = Unbound
    /\ b' = Unbound
    /\ pc' = "notsims"
    /\ UNCHANGED <<i, X, y, templates_dat, rollout_dat, expansion_dat, items,
                   prod_to_rules, rollout_rules, expansion_rules, rule_groups,
                   all_sims, n_rules, exists, target_size, prod, rule, r>>
    /\ UNCHANGED <<trainVars, fpVars>>

\* lines 101-104: RolloutPolicyNet.__init__ keeps n_rules
RolloutPolicyNet(n) == n

\* lines 266-294: the loop has ended; the models are built, the rollout
\* examples are started
BuildModels ==
    /\ pc = "notsims"
    /\ Len(notsims) >= NotSimsTarget
    /\ n_rules' = RolloutPolicyNet(Len(rollout_rules))
    /\ X' = <<>>
    /\ y' = <<>>
    /\ items' = prod_to_rules
    /\ pc' = "rollout_prep"
    /\ UNCHANGED <<i, templates_dat, rollout_dat, expansion_dat,
                   prod_to_rules, rollout_rules, expansion_rules, rule_groups,
                   all_sims, notsims, a, b, exists, target_size,
                   prod, rule, r>>
    /\ UNCHANGED <<trainVars, fpVars>>

\* lines 300-303: for r in rules: y.append(rollout_rules[r]); X.append(p)
RECURSIVE RolloutLabels(_)
RolloutLabels(rules) ==
    IF rules = <<>> THEN <<>>
    ELSE <<Get(rollout_rules, Head(rules))>> \o RolloutLabels(Tail(rules))

\* lines 294-303: one product of the rollout data preparation
RolloutPrep(order) ==
    /\ pc = "rollout_prep"
    /\ items # <<>>
    /\ order \in Orders(Head(items)[2])
    /\ LET rules == FilterIn(order, rollout_rules)
       IN /\ y' = y \o RolloutLabels(rules)
          /\ X' = X \o [j \in 1..Len(rules) |-> Head(items)[1]]
          /\ r' = IF rules = <<>> THEN r ELSE rules[Len(rules)]
    /\ items' = Tail(items)
    /\ UNCHANGED <<pc, i, templates_dat, rollout_dat, expansion_dat,
                   prod_to_rules, rollout_rules, expansion_rules, rule_groups,
                   all_sims, notsims, a, b, n_rules, exists,
                   target_size, prod, rule>>
    /\ UNCHANGED <<trainVars, fpVars>>

\* line 304: the rollout examples are complete
RolloutDone ==
    /\ pc = "rollout_prep"
    /\ items = <<>>
    /\ pc' = "rollout_done"
    /\ UNCHANGED <<i, X, y, mainVars, trainVars, fpVars>>

\* lines 316-319: the in-scope filter examples are started
StartFilterPrep ==
    /\ pc = "rollout_done"
    /\ X' = <<>>
    /\ y' = <<>>
    /\ exists' = {}
    /\ items' = prod_to_rules
    /\ pc' = "filter_prep"
    /\ UNCHANGED <<i, templates_dat, rollout_dat, expansion_dat,
                   prod_to_rules, rollout_rules, expansion_rules, rule_groups,
                   all_sims, notsims, a, b, n_rules, target_size,
                   prod, rule, r>>
    /\ UNCHANGED <<trainVars, fpVars>>

\* lines 319-326: one product of the positive examples
FilterPrep(order) ==
    /\ pc = "filter_prep"
    /\ items # <<>>
    /\ order \in Orders(Head(items)[2])
    /\ LET rules == FilterIn(order, expansion_rules)
           p == Head(items)[1]
       IN /\ y' = y \o [j \in 1..Len(rules) |-> 1]
          /\ X' = X \o [j \in 1..Len(rules) |-> <<p, rules[j]>>]
          /\ exists' = exists \cup {Format(p, rules[j]) : j \in 1..Len(rules)}
          /\ r' = IF rules = <<>> THEN r ELSE rules[Len(rules)]
    /\ items' = Tail(items)
    /\ UNCHANGED <<pc, i, templates_dat, rollout_dat, expansion_dat,
                   prod_to_rules, rollout_rules, expansion_rules, rule_groups,
                   all_sims, notsims, a, b, n_rules, target_size, prod, rule>>
    /\ UNCHANGED <<trainVars, fpVars>>

\* lines 328-333: the positive examples are complete, the negative loop starts
StartNegative ==
    /\ pc = "filter_prep"
    /\ items = <<>>
    /\ target_size' = Len(X) * 2
    /\ pc' = "negative"
    /\ UNCHANGED <<i, X, y, templates_dat, rollout_dat, expansion_dat, items,
                   prod_to_rules, rollout_rules, expansion_rules, rule_groups,
                   all_sims, notsims, a, b, n_rules, exists,
                   prod, rule, r>>
    /\ UNCHANGED <<trainVars, fpVars>>

\* lines 333-335: prod = random.choice(prods); rule = random.choice(exprules)
NegativeChoose(cp, cr) ==
    /\ pc = "negative"
    /\ Len(X) < target_size
    /\ Has(prod_to_rules, cp)
    /\ Has(expansion_rules, cr)
    /\ prod' = cp
    /\ rule' = cr
    /\ pc' = "negative_chosen"
    /\ UNCHANGED <<i, X, y, templates_dat, rollout_dat, expansion_dat, items,
                   prod_to_rules, rollout_rules, expansion_rules, rule_groups,
                   all_sims, notsims, a, b, n_rules, exists,
                   target_size, r>>
    /\ UNCHANGED <<trainVars, fpVars>>

\* line 337: key = '{}_{}'.format(prod, r)
NegativeKey == Format(prod, r)

\* lines 338-339: if key in exists: continue
NegativeContinue ==
    /\ pc = "negative_chosen"
    /\ NegativeKey \in exists
    /\ prod' = Unbound
    /\ rule' = Unbound
    /\ pc' = "negative"
    /\ UNCHANGED <<i, X, y, templates_dat, rollout_dat, expansion_dat, items,
                   prod_to_rules, rollout_rules, expansion_rules, rule_groups,
                   all_sims, notsims, a, b, n_rules, exists, target_size, r>>
    /\ UNCHANGED <<trainVars, fpVars>>

\* lines 340-343: the pair is appended with label 0
NegativeAppend ==
    /\ pc = "negative_chosen"
    /\ NegativeKey \notin exists
    /\ y' = Append(y, 0)
    /\ X' = Append(X, <<prod, rule>>)
    /\ prod' = Unbound
    /\ rule' = Unbound
    /\ pc' = "negative"
    /\ UNCHANGED <<i, templates_dat, rollout_dat, expansion_dat, items,
                   prod_to_rules, rollout_rules, expansion_rules, rule_groups,
                   all_sims, notsims, a, b, n_rules, exists, target_size, r>>
    /\ UNCHANGED <<trainVars, fpVars>>

\* lines 344-346: the loop has ended and train is called
CallTrain ==
    /\ pc = "negative"
    /\ Len(X) >= target_size
    /\ pc' = "train"
    /\ UNCHANGED <<i, X, y, mainVars, trainVars, fpVars>>

MainNext ==
    \/ LoadTemplateFile
    \/ LoadRolloutFile
    \/ LoadExpansionFile
    \/ \E order \in BoundedSeq(Rules, Cardinality(Rules)) : BuildRuleGroups(order)
    \/ StartAllSims
    \/ AllSims
    \/ StartNotSims
    \/ \E ca \in Rules, cb \in Rules : NotSimsChoose(ca, cb)
    \/ NotSimsIndexError
    \/ NotSimsContinue
    \/ \E ca \in Prods, cb \in Prods : NotSimsAppend(ca, cb)
    \/ BuildModels
    \/ \E order \in BoundedSeq(Rules, Cardinality(Rules)) : RolloutPrep(order)
    \/ RolloutDone
    \/ StartFilterPrep
    \/ \E order \in BoundedSeq(Rules, Cardinality(Rules)) : FilterPrep(order)
    \/ StartNegative
    \/ \E cp \in Prods, cr \in Rules : NegativeChoose(cp, cr)
    \/ NegativeContinue
    \/ NegativeAppend
    \/ CallTrain

\* the script's variables while train or a transform is looked at on its own
MainIdle ==
    /\ templates_dat = <<>> /\ rollout_dat = <<>> /\ expansion_dat = <<>>
    /\ items = <<>>
    /\ prod_to_rules = <<>> /\ rollout_rules = <<>> /\ expansion_rules = <<>>
    /\ rule_groups = <<>> /\ all_sims = <<>> /\ notsims = <<>>
    /\ a = Unbound /\ b = Unbound
    /\ n_rules = 0 /\ exists = {} /\ target_size = 0
    /\ prod = Unbound /\ rule = Unbound /\ r = Unbound

\* train's variables before train is called
TrainIdle ==
    /\ X_in = <<>> /\ y_in = <<>>
    /\ batch_size = 0 /\ epochs = 0 /\ n_steps = 0 /\ e = 0
    /\ losses = <<>> /\ feeds = <<>> /\ writer = <<>> /\ saves = <<>>

\* the transforms' variables while they are not looked at
FpIdle ==
    /\ raw = <<>> /\ fp_dim = 0 /\ fps = <<>> /\ arr = <<>>

(* ------------------------------ train ---------------------------------- *)
\* int(np.ceil(n / d))
Ceil(n, d) == IF n % d = 0 THEN n \div d ELSE n \div d + 1

\* list(zip(xs, ys))
Zip(xs, ys) ==
    [j \in 1..(IF Len(xs) < Len(ys) THEN Len(xs) ELSE Len(ys)) |-> <<xs[j], ys[j]>>]

\* random.shuffle(xy) when the permutation drawn is p
Shuffled(xy, p) == [j \in 1..Len(xy) |-> xy[p[j]]]

\* X, y = zip(*xy): the first components
UnzipX(xy) == [j \in 1..Len(xy) |-> xy[j][1]]

\* a shuffle that loses the pairing: the labels come back in reverse order
UnzipYReversed(xy) == [j \in 1..Len(xy) |-> xy[Len(xy) + 1 - j][2]]

\* X, y = zip(*xy): the second components
UnzipY(xy) == [j \in 1..Len(xy) |-> xy[j][2]]

\* the Python slice s[l:u], 0 <= l <= u
Slice(s, l, u) == SubSeq(s, l + 1, IF u < Len(s) THEN u ELSE Len(s))

\* a step counter that forgets the number of steps per epoch
GlobalStepNoStride(ep, n, step) == ep + step

\* e*n_steps+i
GlobalStep(ep, n, step) == ep * n + step

\* the loss sess.run returns for its k-th call
Err(k) == <<"err", k>>

\* Python 2 division: len(X)/batch_size is floored before np.ceil
NStepsFloor(n, d) == n \div d

\* line 67
NSteps(n, d) == Ceil(n, d)

TrainInit ==
    /\ MainIdle /\ FpIdle
    /\ pc = "train"
    /\ X \in BoundedSeq(Prods, MaxExamples)
    /\ y \in [1..Len(X) -> {0, 1}]
    /\ X_in = X /\ y_in = y
    /\ batch_size \in 1..MaxBatch
    /\ epochs \in 0..MaxEpochs
    /\ n_steps = 0 /\ e = 0 /\ i = 0
    /\ losses = <<>> /\ feeds = <<>> /\ writer = <<>> /\ saves = <<>>

\* lines 64-69: the locals are set and the epoch loop starts
TrainStart ==
    /\ pc = "train"
    /\ losses' = <<>>
    /\ n_steps' = NSteps(Len(X), batch_size)
    /\ writer' = <<>>
    /\ e' = 0
    /\ pc' = "epoch"
    /\ UNCHANGED <<i, X, y, mainVars, fpVars, X_in, y_in, batch_size, epochs,
                   feeds, saves>>

\* lines 69-78: the shuffle of one epoch, p the permutation drawn
Shuffle(p) ==
    /\ pc = "epoch"
    /\ e < epochs
    /\ Len(X) > 0
    /\ p \in Perms(Len(X))
    /\ LET xy == Shuffled(Zip(X, y), p)
       IN /\ X' = UnzipX(xy)
          /\ y' = UnzipY(xy)
    /\ feeds' = <<>>
    /\ i' = 0
    /\ pc' = "batch"
    /\ UNCHANGED <<mainVars, fpVars, X_in, y_in, batch_size, epochs, n_steps, e,
                   losses, writer, saves>>

\* line 75 on empty data: zip(*[]) yields nothing to unpack
ShuffleValueError ==
    /\ pc = "epoch"
    /\ e < epochs
    /\ Len(X) = 0
    /\ pc' = "ValueError"
    /\ UNCHANGED <<i, X, y, mainVars, fpVars, trainVars>>

\* lines 78-96: one batch
Step ==
    /\ pc = "batch"
    /\ i < n_steps
    /\ LET l == i * batch_size
           u == l + batch_size
       IN feeds' = Append(feeds, <<Slice(X, l, u), Slice(y, l, u)>>)
    /\ losses' = Append(losses, Err(Len(losses) + 1))
    /\ writer' = Append(writer, GlobalStep(e, n_steps, i))
    /\ i' = i + 1
    /\ UNCHANGED <<pc, X, y, mainVars, fpVars, X_in, y_in, batch_size, epochs,
                   n_steps, e, saves>>

\* line 97: the batches of the epoch are done, the checkpoint is saved
Save ==
    /\ pc = "batch"
    /\ i >= n_steps
    /\ saves' = Append(saves, Len(losses))
    /\ e' = e + 1
    /\ pc' = "epoch"
    /\ UNCHANGED <<i, X, y, mainVars, fpVars, X_in, y_in, batch_size, epochs,
                   n_steps, losses, feeds, writer>>

\* line 98
Return ==
    /\ pc = "epoch"
    /\ e >= epochs
    /\ pc' = "returned"
    /\ UNCHANGED <<i, X, y, mainVars, fpVars, trainVars>>

TrainNext ==
    \/ TrainStart
    \/ \E p \in UNION {Perms(n) : n \in 1..MaxExamples} : Shuffle(p)
    \/ ShuffleValueError
    \/ Step
    \/ Save
    \/ Return

(* --------------------------- fingerprints ------------------------------ *)
BitVects(n) == [1..n -> BOOLEAN]

\* fp.GetNumBits(), len(fp)
GetNumBits(fp) == Len(fp)

\* fp.GetOnBits(): the 0-based indices of the bits that are set
GetOnBits(fp) == {j - 1 : j \in {k \in 1..Len(fp) : fp[k]}}

\* DataStructs.FoldFingerprint(fp, factor): bit b of fp goes to bit
\* b mod (numBits / factor) of the result
FoldFingerprint(fp, factor) ==
    LET resSize == GetNumBits(fp) \div factor
    IN [pos \in 1..resSize |-> \E bit \in GetOnBits(fp) : bit % resSize = pos - 1]

\* lines 52-60
fingerprint_reactions(reactions, dim) ==
    [j \in 1..Len(reactions) |->
        LET fold_factor == GetNumBits(reactions[j]) \div dim
        IN FoldFingerprint(reactions[j], fold_factor)]

\* lines 34-49: the toolkit is asked for nBits = fp_dim bits per molecule
fingerprint_mols(mols, dim) == mols

\* np.zeros((n, m), dtype=np.bool): indices are 0-based
Zeros(n, m) == [c \in (0..(n - 1)) \X (0..(m - 1)) |-> FALSE]

\* arr[row, onbits] = 1
SetBits(array, row, onbits) ==
    [c \in DOMAIN array |-> IF c[1] = row /\ c[2] \in onbits THEN TRUE ELSE array[c]]

\* lines 15-17, from row `row` (0-based) on
RECURSIVE FillRows(_, _, _)
FillRows(array, list, row) ==
    IF row >= Len(list) THEN array
    ELSE FillRows(SetBits(array, row, GetOnBits(list[row + 1])), list, row + 1)

\* a conversion that takes the 1-based position of a bit for its index
fps_to_arr_shifted(list) ==
    [c \in (0..(Len(list) - 1)) \X (0..(Len(list[1]) - 1)) |->
        c[2] + 1 \in GetOnBits(list[c[1] + 1])]

\* lines 11-18
fps_to_arr(list) ==
    LET dim == Len(list[1])
    IN FillRows(Zeros(Len(list), dim), list, 0)

FpInit ==
    /\ MainIdle /\ TrainIdle
    /\ X = <<>> /\ y = <<>> /\ i = 0
    /\ pc = "fingerprint"
    /\ \E n \in 1..MaxBits :
          /\ raw \in BoundedSeq(BitVects(n), MaxFps)
          /\ fp_dim \in 1..n
    /\ fps = <<>>
    /\ arr = <<>>

\* RolloutPolicyNet.preprocess, line 125, first half: the toolkit returns
\* fp_dim bits per molecule
FingerprintMols ==
    /\ pc = "fingerprint"
    /\ \A j \in 1..Len(raw) : GetNumBits(raw[j]) = fp_dim
    /\ fps' = fingerprint_mols(raw, fp_dim)
    /\ pc' = "mols"
    /\ UNCHANGED <<i, X, y, mainVars, trainVars, raw, fp_dim, arr>>

\* InScopeFilterNet.preprocess, line 206
FingerprintReactions ==
    /\ pc = "fingerprint"
    /\ fps' = fingerprint_reactions(raw, fp_dim)
    /\ pc' = "reactions"
    /\ UNCHANGED <<i, X, y, mainVars, trainVars, raw, fp_dim, arr>>

\* line 125, second half: fps_to_arr of a non-empty list
FpsToArr ==
    /\ pc \in {"mols", "reactions"}
    /\ fps # <<>>
    /\ arr' = fps_to_arr(fps)
    /\ pc' = "array"
    /\ UNCHANGED <<i, X, y, mainVars, trainVars, raw, fp_dim, fps>>

\* line 13 on an empty list: fps[0] raises IndexError
FpsToArrIndexError ==
    /\ pc \in {"mols", "reactions"}
    /\ fps = <<>>
    /\ pc' = "IndexError"
    /\ UNCHANGED <<i, X, y, mainVars, trainVars, fpVars>>

FpNext ==
    \/ FingerprintMols
    \/ FingerprintReactions
    \/ FpsToArr
    \/ FpsToArrIndexError

(* -------------------------- specifications ----------------------------- *)
Init == MainInit /\ TrainIdle /\ FpIdle

Next == MainNext

Spec == Init /\ [][Next]_vars

\* random.choice is fair: a value that can be drawn again and again is drawn
Fairness ==
    /\ WF_vars(Next)
    /\ \A ca \in Rules, cb \in Rules : SF_vars(NotSimsChoose(ca, cb))
    /\ \A cp \in Prods, cr \in Rules : SF_vars(NegativeChoose(cp, cr))

FairSpec == Spec /\ Fairness

TrainSpec == TrainInit /\ [][TrainNext]_vars

FpSpec == FpInit /\ [][FpNext]_vars

(* ---------------------- properties of __main__ ------------------------- *)
\* the (prod, rule) pair is a line of templates.dat
InTemplates(p, ru) == \E j \in 1..Len(templates_dat) : templates_dat[j] = <<ru, p>>

\* the pairs of templates.dat whose rule is a line of the rule file `dat`
PairsIn(dat) ==
    {q \in Prods \X Rules : InTemplates(q[1], q[2]) /\ q[2] \in Range(dat)}

\* the positions of the rollout example made from product p and rule ru
RolloutOccurrences(p, ru) ==
    {j \in 1..Len(X) : X[j] = p /\ Has(rollout_rules, ru) /\ y[j] = Get(rollout_rules, ru)}

\* the positions of the in-scope filter example (p, ru) with label lab
FilterOccurrences(p, ru, lab) ==
    {j \in 1..Len(X) : X[j] = <<p, ru>> /\ y[j] = lab}

\* C1: in the in-scope filter data, no (product, rule) pair occurs in X both
\* with label 1 and with label 0, while and after the negative loop runs.
C1_NegativesAreNotPositives ==
    pc \in {"negative", "negative_chosen", "train"} =>
        \A p \in Prods, ru \in Rules :
            FilterOccurrences(p, ru, 1) = {} \/ FilterOccurrences(p, ru, 0) = {}

\* C3: each (product, rule) pair occurs exactly once among the rollout
\* examples if it is a line of templates.dat and its rule is in rollout.dat,
\* and not at all otherwise; the same among the label 1 examples of the
\* in-scope filter, with expansion.dat; and there are no other examples.
C3_Deduplicated ==
    /\ pc = "rollout_done" =>
          /\ \A p \in Prods, ru \in Rules :
                Cardinality(RolloutOccurrences(p, ru)) =
                    IF <<p, ru>> \in PairsIn(rollout_dat) THEN 1 ELSE 0
          /\ Len(X) = Cardinality(PairsIn(rollout_dat))
          /\ Len(y) = Len(X)
    /\ pc \in {"negative", "negative_chosen", "train"} =>
          /\ \A p \in Prods, ru \in Rules :
                Cardinality(FilterOccurrences(p, ru, 1)) =
                    IF <<p, ru>> \in PairsIn(expansion_dat) THEN 1 ELSE 0
          /\ Cardinality({j \in 1..Len(X) : y[j] = 1}) =
                Cardinality(PairsIn(expansion_dat))
          /\ Len(y) = Len(X)

\* C3 witness: templates.dat repeats a line whose rule is in both rule files,
\* and the rollout examples have been built from it.
C3_Witness ==
    /\ pc = "rollout_done"
    /\ \E j, k \in 1..Len(templates_dat) :
          /\ j < k
          /\ templates_dat[j] = templates_dat[k]
          /\ templates_dat[j][1] \in Range(rollout_dat)
          /\ templates_dat[j][1] \in Range(expansion_dat)
          /\ RolloutOccurrences(templates_dat[j][2], templates_dat[j][1]) # {}

\* some (product, expansion rule) pair is not a positive example
NonPositiveExists ==
    \E p \in Range(Keys(prod_to_rules)), ru \in Range(Keys(expansion_rules)) :
        FilterOccurrences(p, ru, 1) = {}

\* C8: whenever the negative loop is entered and some (product, expansion
\* rule) pair is not a positive example, the loop eventually ends, and then
\* len(X) equals target_size.
C8_NegativeLoopTerminates ==
    [](pc = "negative" /\ NonPositiveExists
          => <>(pc = "train" /\ Len(X) = target_size))

\* C9: every label of the rollout training set is a class index of the
\* rollout network: 0 <= y < n_rules.
C9_LabelsAreClassIndices ==
    pc \in {"rollout_prep", "rollout_done"} =>
        \A j \in 1..Len(y) : 0 <= y[j] /\ y[j] < n_rules

\* C10: the notsims loop eventually ends (by reaching its target, or by the
\* IndexError of random.choice), and every sample it records compares
\* products of two different rules of rule_groups.
C10_NotSimsTerminates ==
    /\ [](pc = "notsims" => <>(pc \in {"rollout_prep", "IndexError"}))
    /\ [][Len(notsims') > Len(notsims)
            => a # b /\ Has(rule_groups, a) /\ Has(rule_groups, b)]_vars

(* ------------------------ properties of train -------------------------- *)
\* the least q with q * d >= n
CeilDiv(n, d) == CHOOSE q \in 0..n : q * d >= n /\ (q = 0 \/ (q - 1) * d < n)

RECURSIVE Flatten(_)
Flatten(ss) == IF ss = <<>> THEN <<>> ELSE Head(ss) \o Flatten(Tail(ss))

\* how often v occurs in s
Count(s, v) == Cardinality({j \in 1..Len(s) : s[j] = v})

\* C5: for non-empty X, a completed epoch has run ceil(len(X)/batch_size)
\* steps; its batches, in order, make up the shuffled X and y exactly, and
\* every batch has between 1 and batch_size examples.
C5_BatchesPartitionEpoch ==
    (pc \in {"epoch", "returned"} /\ saves # <<>> /\ X_in # <<>>) =>
        LET fed == feeds
        IN /\ Len(fed) = CeilDiv(Len(X_in), batch_size)
           /\ Flatten([j \in 1..Len(fed) |-> fed[j][1]]) = X
           /\ Flatten([j \in 1..Len(fed) |-> fed[j][2]]) = y
           /\ \A j \in 1..Len(fed) :
                 /\ 1 <= Len(fed[j][1])
                 /\ Len(fed[j][1]) <= batch_size
                 /\ Len(fed[j][2]) = Len(fed[j][1])

\* C5 witness: train has returned after an epoch whose last batch is partial.
C5_Witness ==
    /\ pc = "returned"
    /\ saves # <<>>
    /\ Len(X_in) % batch_size # 0
    /\ Len(X_in) > batch_size

\* C6: the (X[i], y[i]) pairs are always the pairs train was called with,
\* each as often, and every pair fed is one of them.
C6_ShuffleKeepsPairs ==
    /\ Len(X) = Len(y)
    /\ \A v \in Prods \X {0, 1} : Count(Zip(X, y), v) = Count(Zip(X_in, y_in), v)
    /\ \A k \in 1..Len(feeds) :
          /\ Len(feeds[k][1]) = Len(feeds[k][2])
          /\ \A j \in 1..Len(feeds[k][1]) :
                Count(Zip(X_in, y_in), <<feeds[k][1][j], feeds[k][2][j]>>) > 0

\* C6 witness: a shuffle has changed the order of examples with different
\* labels, and a batch of it has been fed.
C6_Witness ==
    /\ pc = "batch"
    /\ i > 0
    /\ X # X_in
    /\ y # y_in
    /\ \E j, k \in 1..Len(y_in) : y_in[j] # y_in[k]

\* C7: the k-th checkpoint is saved after exactly k * n_steps runs, one per
\* completed epoch; the summary steps written are 0, 1, 2, ... without
\* repeat or gap; losses holds the loss of every run in order; and when
\* train returns there are epochs checkpoints and epochs * n_steps losses.
C7_StepsAndCheckpoints ==
    LET n == CeilDiv(Len(X_in), batch_size)
    IN /\ writer = [k \in 1..Len(writer) |-> k - 1]
       /\ Len(losses) = Len(writer)
       /\ losses = [k \in 1..Len(losses) |-> Err(k)]
       /\ saves = [k \in 1..Len(saves) |-> k * n]
       /\ pc \in {"epoch", "batch", "returned"} => Len(saves) = e
       /\ pc = "batch" => Len(feeds) = i /\ Len(losses) = e * n + i
       /\ pc = "returned" =>
             /\ Len(saves) = epochs
             /\ Len(losses) = epochs * n
             /\ Range(writer) = 0..(epochs * n - 1)

\* C7 witness: train has returned after two or more epochs of two or more
\* steps each.
C7_Witness ==
    /\ pc = "returned"
    /\ epochs >= 2
    /\ n_steps >= 2
    /\ Len(saves) >= 2

(* --------------------- properties of the transforms -------------------- *)
\* C2: every fingerprint fingerprint_reactions returns has exactly fp_dim
\* bits, for every raw length N and every fp_dim with 1 <= fp_dim <= N.
C2_FoldedToFpDim ==
    pc = "reactions" => \A j \in 1..Len(fps) : GetNumBits(fps[j]) = fp_dim

\* C4: for a non-empty list of fingerprints of equal length, fps_to_arr
\* returns an array of shape (len(fps), len(fps[0])) whose entry [i][j] is
\* true exactly if bit j of fps[i] is set.
C4_ArrayIsFaithful ==
    pc = "array" =>
        /\ DOMAIN arr = (0..(Len(fps) - 1)) \X (0..(Len(fps[1]) - 1))
        /\ \A row \in 0..(Len(fps) - 1), col \in 0..(Len(fps[1]) - 1) :
              arr[<<row, col>>] = fps[row + 1][col + 1]

\* C4 witness: two different fingerprints of two or more bits, with bits set
\* and bits clear, have been converted.
C4_Witness ==
    /\ pc = "array"
    /\ Len(fps) >= 2
    /\ Len(fps[1]) >= 2
    /\ fps[1] # fps[2]
    /\ \E col \in 1..Len(fps[1]) : fps[1][col]
    /\ \E col \in 1..Len(fps[1]) : ~fps[1][col]

====
